---- MODULE Spec2Model ----
(***************************************************************************)
(* A model of hsfs.feature_group.FeatureGroup (python/hsfs/feature_group.py) *)
(* One handle `fg` is driven through its public operations; the calls it    *)
(* makes to its collaborators (ComputeEngine, MetadataEngine = the          *)
(* FeatureGroupEngine, StatisticsEngine) and the warnings it emits during   *)
(* the last operation are recorded in `calls` and `warned`.                 *)
(*                                                                         *)
(* Python values: None is the empty tuple <<>> and a value v is <<v>>       *)
(* (Some(v)), so that optional fields keep one TLA+ type.  Strings that the *)
(* code converts (upper(), lower()) are sequences of ASCII code points;     *)
(* strings that are only compared or copied are TLA+ strings.               *)
(* __init__ accepts featurestore_name, created, creator, location, jobs and *)
(* hudi_enabled; the fields it stores them in are read by no operation      *)
(* modelled here and are not part of the handle record.                     *)
(***************************************************************************)
EXTENDS Integers, Sequences, FiniteSets, TLC

VARIABLES
    fg,       \* the handle
    made,     \* the handle the last from_response_json call returned, if any
    lastOp,   \* the last operation called
    arg,      \* its argument (storage, features or payload), None if not kept
    outcome,  \* "returned", or the error it raised
    result,   \* what it returned
    calls,    \* the collaborator calls it made, in order
    warned    \* the warnings it emitted, in order

vars == <<fg, made, lastOp, arg, outcome, result, calls, warned>>

\* ------------------------------------------------------------------ bounds
\* Longest features list the bounded backend lets a schema grow to.
MaxFeatures == 2
\* Largest version number the backend assigns.
MaxVersion == 2

\* ------------------------------------------------------------ Python values
None == <<>>
Some(v) == <<v>>
Val(o) == o[1]

\* str.upper() on ASCII code points
Upper(s) == [i \in 1..Len(s) |-> IF s[i] \in 97..122 THEN s[i] - 32 ELSE s[i]]
\* str.lower() on ASCII code points
Lower(s) == [i \in 1..Len(s) |-> IF s[i] \in 65..90 THEN s[i] + 32 ELSE s[i]]

str_hudi == <<104, 117, 100, 105>>
str_Hudi == <<72, 117, 100, 105>>
str_online == <<111, 110, 108, 105, 110, 101>>
str_offline == <<111, 102, 102, 108, 105, 110, 101>>
str_Offline == <<79, 102, 102, 108, 105, 110, 101>>
str_invalid == <<105, 110, 118, 97, 108, 105, 100>>

\* [x : P(x)] list comprehension over a sequence, keeping the order
RECURSIVE SelectNames(_, _)
SelectNames(feats, flag) ==
    IF feats = <<>> THEN <<>>
    ELSE (IF Head(feats)[flag] = TRUE THEN <<Head(feats).name>> ELSE <<>>)
         \o SelectNames(Tail(feats), flag)

Range(s) == {s[i] : i \in 1..Len(s)}
Names(feats) == {feats[i].name : i \in 1..Len(feats)}
NoDup(feats) == \A i, j \in 1..Len(feats) : feats[i].name = feats[j].name => i = j

\* ---------------------------------------------------------------- features
\* A schema element: a Feature object, the dict the backend sends for one, or
\* (as an append_features argument) something that is not a Feature at all.
Feat(kind, name, primary, partition) ==
    [kind |-> kind, name |-> name, primary |-> primary, partition |-> partition]

FId == Feat("Feature", "id", TRUE, FALSE)
FTs == Feat("Feature", "ts", TRUE, TRUE)
FVal == Feat("Feature", "val", FALSE, FALSE)
NotAFeature == Feat("str", "val", FALSE, FALSE)

AsDict(f) == [f EXCEPT !.kind = "dict"]

\* feature.Feature.from_response_json(feat): the dict's fields as a Feature
FeatureFromResponseJson(feat) == [feat EXCEPT !.kind = "Feature"]

\* ------------------------------------------------------- statistics config
\* StatisticsConfig(enabled, correlations, histograms, columns)
StatisticsConfig(enabled, correlations, histograms, columns) ==
    [enabled |-> enabled, correlations |-> correlations,
     histograms |-> histograms, columns |-> columns]

\* StatisticsConfig(): every field at its default
DefaultStatisticsConfig ==
    StatisticsConfig(Some(FALSE), Some(FALSE), Some(FALSE), Some(<<>>))

\* Python's truth value of a flag: None and False are false
Truthy(flag) == flag = Some(TRUE)

\* StatisticsConfig(**d): the fields d gives, the others at their defaults
StatisticsConfigFromDict(d) ==
    [k \in DOMAIN DefaultStatisticsConfig |->
        IF k \in DOMAIN d THEN d[k] ELSE DefaultStatisticsConfig[k]]

\* What a caller may assign to statistics_config: tag is the Python type.
CfgInput(tag, val) == [tag |-> tag, val |-> val]

\* the setter as it would be if an unsupported type fell back to the default
StatisticsConfigSetterLenient(old, x) ==
    CASE x.tag = "StatisticsConfig" -> [outcome |-> "returned", cfg |-> x.val]
      [] x.tag = "dict" ->
            [outcome |-> "returned", cfg |-> StatisticsConfigFromDict(x.val)]
      [] x.tag = "bool" ->
            [outcome |-> "returned",
             cfg |-> [DefaultStatisticsConfig EXCEPT !.enabled = Some(x.val)]]
      [] OTHER -> [outcome |-> "returned", cfg |-> DefaultStatisticsConfig]

\* statistics_config setter: [outcome, cfg]; cfg is the stored value after
\* the assignment (the old one when it raises).
StatisticsConfigSetter(old, x) ==
    CASE x.tag = "StatisticsConfig" -> [outcome |-> "returned", cfg |-> x.val]
      [] x.tag = "dict" ->
            [outcome |-> "returned", cfg |-> StatisticsConfigFromDict(x.val)]
      [] x.tag = "bool" ->
            [outcome |-> "returned",
             cfg |-> [DefaultStatisticsConfig EXCEPT !.enabled = Some(x.val)]]
      [] x.tag = "NoneType" ->
            [outcome |-> "returned", cfg |-> DefaultStatisticsConfig]
      [] OTHER -> [outcome |-> "TypeError", cfg |-> old]

\* ------------------------------------------------------------ the handle
\* Parameters of FeatureGroup.__init__ (those the model keeps)
InitParams ==
    {"name", "version", "featurestore_id", "description", "partition_key",
     "primary_key", "featurestore_name", "created", "creator", "id",
     "features", "location", "jobs", "desc_stats_enabled", "feat_corr_enabled",
     "feat_hist_enabled", "statistic_columns", "online_enabled",
     "time_travel_format", "hudi_enabled", "statistics_config"}
RequiredParams == {"name", "version", "featurestore_id"}

\* kw[k] when the keyword is given, the parameter's default otherwise
Arg(kw, k, default) == IF k \in DOMAIN kw THEN kw[k] ELSE default

\* An object whose __init__ has not run yet
Blank ==
    [feature_store_id |-> None, description |-> None, version |-> None,
     name |-> None, id |-> None, features |-> <<>>, online_enabled |-> None,
     time_travel_format |-> None, statistics_config |-> DefaultStatisticsConfig,
     primary_key |-> None, partition_key |-> None]

\* self._time_travel_format = time_travel_format.upper() if not None else None
InitTimeTravelFormat(time_travel_format) ==
    IF time_travel_format # None THEN Some(Upper(Val(time_travel_format))) ELSE None

\* the primary key as it would be without the filter on feat.primary
DerivedPrimaryKeyUnfiltered(features) == [i \in 1..Len(features) |-> features[i].name]

\* [feat.name for feat in self._features if feat.primary is True]
DerivedPrimaryKey(features) == SelectNames(features, "primary")
\* [feat.name for feat in self._features if feat.partition is True]
DerivedPartitionKey(features) == SelectNames(features, "partition")

\* the keys as they would be if the backend branch took them from the
\* arguments, as the user branch does
InitBackendKeysVerbatim(h, kw) ==
    [h EXCEPT !.primary_key = Arg(kw, "primary_key", None),
              !.partition_key = Arg(kw, "partition_key", None)]

\* The keys of a handle initialized by the backend
InitBackendKeys(h, kw) ==
    [h EXCEPT !.primary_key = Some(DerivedPrimaryKey(h.features)),
              !.partition_key = Some(DerivedPartitionKey(h.features))]

\* self._features = [Feature.from_response_json(feat) if isinstance(feat, dict)
\*                   else feat for feat in features]
InitFeatures(features) ==
    [i \in 1..Len(features) |->
        IF features[i].kind = "dict" THEN FeatureFromResponseJson(features[i])
        ELSE features[i]]

\* FeatureGroup.__init__(self, **kw): [outcome, h].  The assignments run in
\* the order of the source, so a raise leaves the earlier ones in place.
FeatureGroupInit(self, kw) ==
    IF ~(DOMAIN kw \subseteq InitParams /\ RequiredParams \subseteq DOMAIN kw)
    THEN [outcome |-> "TypeError", h |-> self]
    ELSE
    LET h1 == [self EXCEPT !.feature_store_id = kw["featurestore_id"],
                           !.description = Arg(kw, "description", Some("")),
                           !.version = kw["version"],
                           !.name = kw["name"],
                           !.id = Arg(kw, "id", None)]
        features == Arg(kw, "features", None)
    IN IF features = None THEN [outcome |-> "TypeError", h |-> h1]
       ELSE
       LET h2 == [h1 EXCEPT !.features = InitFeatures(Val(features)),
                            !.online_enabled = Arg(kw, "online_enabled", Some(FALSE)),
                            !.time_travel_format =
                                InitTimeTravelFormat(Arg(kw, "time_travel_format", None))]
       IN IF h2.id # None
          THEN \* initialized by backend
               [outcome |-> "returned",
                h |-> InitBackendKeys(
                        [h2 EXCEPT !.statistics_config =
                            StatisticsConfig(
                                Arg(kw, "desc_stats_enabled", None),
                                Arg(kw, "feat_corr_enabled", None),
                                Arg(kw, "feat_hist_enabled", None),
                                Arg(kw, "statistic_columns", None))],
                        kw)]
          ELSE \* initialized by user
               LET set == StatisticsConfigSetter(h2.statistics_config,
                              Arg(kw, "statistics_config", CfgInput("NoneType", None)))
               IN IF set.outcome # "returned"
                  THEN [outcome |-> set.outcome, h |-> h2]
                  ELSE [outcome |-> "returned",
                        h |-> [h2 EXCEPT
                           !.statistics_config = set.cfg,
                           !.primary_key = Arg(kw, "primary_key", None),
                           !.partition_key = Arg(kw, "partition_key", None)]]

\* ------------------------------------------------------ (de)serialization
\* humps.decamelize on the keys of the wire format
DecamelizeKey ==
    [k \in {"type", "id", "name", "version", "description", "features",
            "created", "creator", "location", "jobs"} |-> k]
    @@ ("featurestoreName" :> "featurestore_name")
    @@ ("hudiEnabled" :> "hudi_enabled")
    @@ ("onlineEnabled" :> "online_enabled")
    @@ ("timeTravelFormat" :> "time_travel_format")
    @@ ("featurestoreId" :> "featurestore_id")
    @@ ("descStatsEnabled" :> "desc_stats_enabled")
    @@ ("featHistEnabled" :> "feat_hist_enabled")
    @@ ("featCorrEnabled" :> "feat_corr_enabled")
    @@ ("statisticColumns" :> "statistic_columns")
    @@ ("primaryKey" :> "primary_key")
    @@ ("partitionKey" :> "partition_key")
    @@ ("statisticsConfig" :> "statistics_config")

Decamelize(json_dict) ==
    [k2 \in {DecamelizeKey[k] : k \in DOMAIN json_dict} |->
        json_dict[CHOOSE k \in DOMAIN json_dict : DecamelizeKey[k] = k2]]

\* dict.pop(key): the dict without the key
Pop(d, key) == [k \in DOMAIN d \ {key} |-> d[k]]

\* to_dict as it would be with the histograms and correlations flags under
\* each other's key
to_dictSwapped(h) ==
    ("id" :> h.id)
    @@ ("name" :> h.name)
    @@ ("version" :> h.version)
    @@ ("description" :> h.description)
    @@ ("onlineEnabled" :> h.online_enabled)
    @@ ("timeTravelFormat" :> h.time_travel_format)
    @@ ("features" :> Some(h.features))
    @@ ("featurestoreId" :> h.feature_store_id)
    @@ ("type" :> Some("cachedFeaturegroupDTO"))
    @@ ("descStatsEnabled" :> h.statistics_config.enabled)
    @@ ("featHistEnabled" :> h.statistics_config.correlations)
    @@ ("featCorrEnabled" :> h.statistics_config.histograms)
    @@ ("statisticColumns" :> h.statistics_config.columns)

\* FeatureGroup.to_dict
to_dict(h) ==
    ("id" :> h.id)
    @@ ("name" :> h.name)
    @@ ("version" :> h.version)
    @@ ("description" :> h.description)
    @@ ("onlineEnabled" :> h.online_enabled)
    @@ ("timeTravelFormat" :> h.time_travel_format)
    @@ ("features" :> Some(h.features))
    @@ ("featurestoreId" :> h.feature_store_id)
    @@ ("type" :> Some("cachedFeaturegroupDTO"))
    @@ ("descStatsEnabled" :> h.statistics_config.enabled)
    @@ ("featHistEnabled" :> h.statistics_config.histograms)
    @@ ("featCorrEnabled" :> h.statistics_config.correlations)
    @@ ("statisticColumns" :> h.statistics_config.columns)

\* json_decamelized = humps.decamelize(json_dict); json_decamelized.pop("type");
\* then __init__(**json_decamelized) on `self`: [outcome, h]
InitFromJson(self, json_dict) ==
    LET json_decamelized == Decamelize(json_dict)
    IN IF "type" \notin DOMAIN json_decamelized
       THEN [outcome |-> "KeyError", h |-> self]
       ELSE FeatureGroupInit(self, Pop(json_decamelized, "type"))

\* FeatureGroup.from_response_json: [outcome, h] of a new object
from_response_json(json_dict) == InitFromJson(Blank, json_dict)

\* ------------------------------------------------------- collaborators
\* One call the handle makes to a collaborator: which dataframe it hands
\* over (data), for MetadataEngine.insert the storage argument, and whether
\* the call returned or raised.
Call(engine, method, data, storage) ==
    [engine |-> engine, method |-> method, data |-> data, storage |-> storage,
     returned |-> TRUE]
Raised(call) == [call EXCEPT !.returned = FALSE]

\* warnings.warn(message.format(self._name, self._version), category)
Warning(category, h) == [category |-> category, name |-> h.name, version |-> h.version]

\* What one run of an operation leaves behind
Ran(h, out, res, cs, ws) ==
    [h |-> h, outcome |-> out, result |-> res, calls |-> cs, warned |-> ws]

\* FeatureGroupEngine.save, when the backend accepts: assigns the id and,
\* if the version is unset, the version v the backend picked.
EngineSave(h, v) ==
    [h EXCEPT !.id = IF h.id = None THEN Some(1) ELSE h.id,
              !.version = IF h.version = None THEN Some(v) ELSE h.version]

\* FeatureGroupEngine.append_features, when the backend accepts: the handle's
\* schema is the old one followed by the new features.
EngineAppendFeatures(h, new_features) ==
    [h EXCEPT !.features = h.features \o new_features]

\* FeatureGroupEngine.update_description, when the backend accepts: the
\* handle carries the new description.
EngineUpdateDescription(h, description) == [h EXCEPT !.description = description]

\* ----------------------------------------------------------- operations
\* Which collaborator call raises, if the operation gets to it: the
\* ComputeEngine's dataframe conversion, a MetadataEngine call, the
\* ComputeEngine's read, a StatisticsEngine call
Failures == {"none", "convert", "metadata", "read", "statistics"}

\* compute_statistics as it would be if a disabled handle raised instead of
\* warning
ComputeStatisticsRunRaises(h, fail) ==
    IF Truthy(h.statistics_config.enabled)
    THEN LET c1 == Call("ComputeEngine", "set_job_group", "none", None)
             c2 == Call("ComputeEngine", "read", "none", None)
             c3 == Call("StatisticsEngine", "compute_statistics", "read_result", None)
         IN IF fail = "read"
            THEN Ran(h, "EngineError", "none", <<c1, Raised(c2)>>, <<>>)
            ELSE IF fail = "statistics"
            THEN Ran(h, "EngineError", "none", <<c1, c2, Raised(c3)>>, <<>>)
            ELSE Ran(h, "returned", "statistics", <<c1, c2, c3>>, <<>>)
    ELSE Ran(h, "ValueError", "none", <<>>, <<>>)

\* FeatureGroup.read: set_job_group, then select_all() [.as_of(wallclock_time)]
\* .read(...); the handle is left as it is.  `if wallclock_time:` is false
\* for None and for the empty string.
ReadRun(h, wallclock_time, fail) ==
    LET c1 == Call("ComputeEngine", "set_job_group", "none", None)
        c2 == Call("ComputeEngine", "read",
                   IF wallclock_time # None /\ Val(wallclock_time) # ""
                   THEN "as_of" ELSE "none", None)
    IN IF fail = "read"
       THEN Ran(h, "EngineError", "none", <<c1, Raised(c2)>>, <<>>)
       ELSE Ran(h, "returned", "dataframe", <<c1, c2>>, <<>>)

\* FeatureGroup.read_changes: select_all().pull_changes(...).read(...)
ReadChangesRun(h, fail) ==
    LET c1 == Call("ComputeEngine", "read", "pull_changes", None)
    IN IF fail = "read"
       THEN Ran(h, "EngineError", "none", <<Raised(c1)>>, <<>>)
       ELSE Ran(h, "returned", "dataframe", <<c1>>, <<>>)

\* FeatureGroup.show: set_job_group, then select_all().show(n, online)
ShowRun(h, fail) ==
    LET c1 == Call("ComputeEngine", "set_job_group", "none", None)
        c2 == Call("ComputeEngine", "show", "none", None)
    IN IF fail = "read"
       THEN Ran(h, "EngineError", "none", <<c1, Raised(c2)>>, <<>>)
       ELSE Ran(h, "returned", "rows", <<c1, c2>>, <<>>)

\* FeatureGroup.commit_details: the engine's result
CommitDetailsRun(h, fail) ==
    LET c1 == Call("MetadataEngine", "commit_details", "none", None)
    IN IF fail = "metadata"
       THEN Ran(h, "EngineError", "none", <<Raised(c1)>>, <<>>)
       ELSE Ran(h, "returned", "commit_details", <<c1>>, <<>>)

\* FeatureGroup.commit_delete_record: one engine call, returns None
CommitDeleteRecordRun(h, fail) ==
    LET c1 == Call("MetadataEngine", "commit_delete", "delete_df", None)
    IN IF fail = "metadata"
       THEN Ran(h, "EngineError", "none", <<Raised(c1)>>, <<>>)
       ELSE Ran(h, "returned", "None", <<c1>>, <<>>)

\* FeatureGroup.update_statistics_config: one engine call, returns self
UpdateStatisticsConfigRun(h, fail) ==
    LET c1 == Call("MetadataEngine", "update_statistics_config", "none", None)
    IN IF fail = "metadata"
       THEN Ran(h, "EngineError", "none", <<Raised(c1)>>, <<>>)
       ELSE Ran(h, "returned", "self", <<c1>>, <<>>)

\* FeatureGroup.update_description: one engine call, returns self
UpdateDescriptionRun(h, description, fail) ==
    LET c1 == Call("MetadataEngine", "update_description", "description", None)
    IN IF fail = "metadata"
       THEN Ran(h, "EngineError", "none", <<Raised(c1)>>, <<>>)
       ELSE Ran(EngineUpdateDescription(h, description), "returned", "self",
                <<c1>>, <<>>)

\* FeatureGroup.get_statistics: StatisticsEngine.get_last(self) when
\* commit_time is None, StatisticsEngine.get(self, commit_time) otherwise
GetStatisticsRun(h, commit_time, fail) ==
    LET c1 == Call("StatisticsEngine",
                   IF commit_time = None THEN "get_last" ELSE "get", "none", None)
    IN IF fail = "statistics"
       THEN Ran(h, "EngineError", "none", <<Raised(c1)>>, <<>>)
       ELSE Ran(h, "returned", "statistics", <<c1>>, <<>>)

\* FeatureGroup.compute_statistics
ComputeStatisticsRun(h, fail) ==
    IF Truthy(h.statistics_config.enabled)
    THEN LET c1 == Call("ComputeEngine", "set_job_group", "none", None)
             c2 == Call("ComputeEngine", "read", "none", None)
             c3 == Call("StatisticsEngine", "compute_statistics", "read_result", None)
         IN IF fail = "read"
            THEN Ran(h, "EngineError", "none", <<c1, Raised(c2)>>, <<>>)
            ELSE IF fail = "statistics"
            THEN Ran(h, "EngineError", "none", <<c1, c2, Raised(c3)>>, <<>>)
            ELSE Ran(h, "returned", "statistics", <<c1, c2, c3>>, <<>>)
    ELSE Ran(h, "returned", "None", <<>>, <<Warning("StorageWarning", h)>>)

\* save as it would be if it computed statistics whatever the flag says
SaveRunIgnoresFlag(h, fail, v) ==
    LET c1 == Call("ComputeEngine", "convert_to_default_dataframe", "features", None)
        c2 == Call("MetadataEngine", "save", "feature_dataframe", None)
        c3 == Call("StatisticsEngine", "compute_statistics", "feature_dataframe", None)
        saved == EngineSave(h, v)
        ws == IF h.version = None
              THEN <<Warning("VersionWarning", saved)>> ELSE <<>>
    IN IF fail = "convert"
       THEN Ran(h, "EngineError", "none", <<Raised(c1)>>, <<>>)
       ELSE IF fail = "metadata"
       THEN Ran(h, "EngineError", "none", <<c1, Raised(c2)>>, <<>>)
       ELSE IF fail = "statistics"
       THEN Ran(saved, "EngineError", "none", <<c1, c2, Raised(c3)>>, <<>>)
       ELSE Ran(saved, "returned", "self", <<c1, c2, c3>>, ws)

\* save as it would be if the warning reported the version held at call time
SaveRunWarnsCallTimeVersion(h, fail, v) ==
    LET c1 == Call("ComputeEngine", "convert_to_default_dataframe", "features", None)
        c2 == Call("MetadataEngine", "save", "feature_dataframe", None)
        c3 == Call("StatisticsEngine", "compute_statistics", "feature_dataframe", None)
        saved == EngineSave(h, v)
        ws == IF h.version = None
              THEN <<Warning("VersionWarning", h)>> ELSE <<>>
    IN IF fail = "convert"
       THEN Ran(h, "EngineError", "none", <<Raised(c1)>>, <<>>)
       ELSE IF fail = "metadata"
       THEN Ran(h, "EngineError", "none", <<c1, Raised(c2)>>, <<>>)
       ELSE IF Truthy(saved.statistics_config.enabled)
       THEN IF fail = "statistics"
            THEN Ran(saved, "EngineError", "none", <<c1, c2, Raised(c3)>>, <<>>)
            ELSE Ran(saved, "returned", "self", <<c1, c2, c3>>, ws)
       ELSE Ran(saved, "returned", "self", <<c1, c2>>, ws)

\* FeatureGroup.save; v is the version the backend would assign.
SaveRun(h, fail, v) ==
    LET c1 == Call("ComputeEngine", "convert_to_default_dataframe", "features", None)
        user_version == h.version
        c2 == Call("MetadataEngine", "save", "feature_dataframe", None)
        c3 == Call("StatisticsEngine", "compute_statistics", "feature_dataframe", None)
        saved == EngineSave(h, v)
        ws == IF user_version = None
              THEN <<Warning("VersionWarning", saved)>> ELSE <<>>
    IN IF fail = "convert"
       THEN Ran(h, "EngineError", "none", <<Raised(c1)>>, <<>>)
       ELSE IF fail = "metadata"
       THEN Ran(h, "EngineError", "none", <<c1, Raised(c2)>>, <<>>)
       ELSE IF Truthy(saved.statistics_config.enabled)
       THEN IF fail = "statistics"
            THEN Ran(saved, "EngineError", "none", <<c1, c2, Raised(c3)>>, <<>>)
            ELSE Ran(saved, "returned", "self", <<c1, c2, c3>>, ws)
       ELSE Ran(saved, "returned", "self", <<c1, c2>>, ws)

\* insert as it would be if it recomputed statistics whatever the flag says
InsertRunUnconditional(h, storage, fail) ==
    LET c1 == Call("ComputeEngine", "convert_to_default_dataframe", "features", None)
        lowered == IF storage.tag = "str" THEN Some(Lower(storage.s)) ELSE None
        c2 == Call("MetadataEngine", "insert", "feature_dataframe", lowered)
        stats == ComputeStatisticsRun([h EXCEPT !.statistics_config.enabled = Some(TRUE)], fail)
    IN IF fail = "convert"
       THEN Ran(h, "EngineError", "none", <<Raised(c1)>>, <<>>)
       ELSE IF storage.tag \notin {"NoneType", "str"}
       THEN Ran(h, "AttributeError", "none", <<c1>>, <<>>)
       ELSE IF fail = "metadata"
       THEN Ran(h, "EngineError", "none", <<c1, Raised(c2)>>, <<>>)
       ELSE Ran(h, stats.outcome,
                IF stats.outcome = "returned" THEN "None" ELSE "none",
                <<c1, c2>> \o stats.calls, stats.warned)

\* FeatureGroup.insert; storage is [tag, s]: the Python type of the argument
\* and, for a str, its characters.  The handle checks nothing: a str goes
\* lower-cased to MetadataEngine.insert, whatever it spells.
InsertRun(h, storage, fail) ==
    LET c1 == Call("ComputeEngine", "convert_to_default_dataframe", "features", None)
    IN IF fail = "convert"
       THEN Ran(h, "EngineError", "none", <<Raised(c1)>>, <<>>)
       ELSE IF storage.tag \notin {"NoneType", "str"}
       THEN \* storage.lower() on a value that has no lower()
            Ran(h, "AttributeError", "none", <<c1>>, <<>>)
       ELSE
       LET lowered == IF storage.tag = "str" THEN Some(Lower(storage.s)) ELSE None
           c2 == Call("MetadataEngine", "insert", "feature_dataframe", lowered)
           stats == ComputeStatisticsRun(h, fail)
       IN IF fail = "metadata"
          THEN Ran(h, "EngineError", "none", <<c1, Raised(c2)>>, <<>>)
          ELSE Ran(stats.h, stats.outcome,
                   IF stats.outcome = "returned" THEN "None" ELSE "none",
                   <<c1, c2>> \o stats.calls, stats.warned)

\* the loop as it would be if it skipped what is not a Feature
RECURSIVE CollectFeaturesSkipping(_)
CollectFeaturesSkipping(items) ==
    IF items = <<>> THEN [ok |-> TRUE, new_features |-> <<>>]
    ELSE LET rest == CollectFeaturesSkipping(Tail(items))
         IN [ok |-> TRUE,
             new_features |-> (IF Head(items).kind = "Feature"
                               THEN <<Head(items)>> ELSE <<>>) \o rest.new_features]

\* The loop of append_features over a list argument: [ok, new_features]
RECURSIVE CollectFeatures(_)
CollectFeatures(items) ==
    IF items = <<>> THEN [ok |-> TRUE, new_features |-> <<>>]
    ELSE IF Head(items).kind = "Feature"
    THEN LET rest == CollectFeatures(Tail(items))
         IN [ok |-> rest.ok, new_features |-> <<Head(items)>> \o rest.new_features]
    ELSE [ok |-> FALSE, new_features |-> <<>>]

\* append_features as it would be if the handle kept only the new features
AppendFeaturesRunReplace(h, features, fail) ==
    LET got == IF features.kind = "Feature"
               THEN [ok |-> TRUE, new_features |-> features.items]
               ELSE IF features.kind = "list" THEN CollectFeatures(features.items)
               ELSE [ok |-> FALSE, new_features |-> <<>>]
        c == Call("MetadataEngine", "append_features", "new_features", None)
    IN IF ~got.ok THEN Ran(h, "TypeError", "none", <<>>, <<>>)
       ELSE IF fail = "metadata"
       THEN Ran(h, "EngineError", "none", <<Raised(c)>>, <<>>)
       ELSE Ran([h EXCEPT !.features = got.new_features], "returned", "self", <<c>>, <<>>)

\* FeatureGroup.append_features; features is [kind, items]: a Feature (one
\* item), a list (its elements) or anything else.
AppendFeaturesRun(h, features, fail) ==
    LET got == IF features.kind = "Feature"
               THEN [ok |-> TRUE, new_features |-> features.items]
               ELSE IF features.kind = "list" THEN CollectFeatures(features.items)
               ELSE [ok |-> FALSE, new_features |-> <<>>]
        c == Call("MetadataEngine", "append_features", "new_features", None)
    IN IF ~got.ok THEN Ran(h, "TypeError", "none", <<>>, <<>>)
       ELSE IF fail = "metadata"
       THEN Ran(h, "EngineError", "none", <<Raised(c)>>, <<>>)
       ELSE Ran(EngineAppendFeatures(h, got.new_features), "returned", "self", <<c>>, <<>>)

\* features setter
FeaturesSetter(h, new_features) == [h EXCEPT !.features = new_features]
\* time_travel_format setter
TimeTravelFormatSetter(h, new_time_travel_format) ==
    [h EXCEPT !.time_travel_format = new_time_travel_format]
\* version setter
VersionSetter(h, version) == [h EXCEPT !.version = version]
\* description setter
DescriptionSetter(h, new_description) == [h EXCEPT !.description = new_description]
\* online_enabled setter
OnlineEnabledSetter(h, new_online_enabled) ==
    [h EXCEPT !.online_enabled = new_online_enabled]
\* primary_key setter
PrimaryKeySetter(h, new_primary_key) == [h EXCEPT !.primary_key = new_primary_key]
\* partition_key setter
PartitionKeySetter(h, new_partition_key) ==
    [h EXCEPT !.partition_key = new_partition_key]

\* ------------------------------------------------------------- inputs
\* A DTO as the backend returns it for a saved feature group
BackendDTO ==
    ("type" :> Some("cachedFeaturegroupDTO"))
    @@ ("id" :> Some(1))
    @@ ("name" :> Some("fg"))
    @@ ("version" :> Some(1))
    @@ ("featurestoreId" :> Some(67))
    @@ ("features" :> Some(<<AsDict(FId), AsDict(FTs)>>))
    @@ ("timeTravelFormat" :> Some(str_hudi))
    @@ ("descStatsEnabled" :> Some(TRUE))
    @@ ("featCorrEnabled" :> Some(TRUE))
    @@ ("featHistEnabled" :> Some(FALSE))
    @@ ("statisticColumns" :> Some(<<"id">>))
    @@ ("featurestoreName" :> Some("fs"))
    @@ ("created" :> Some("2021-01-01"))
    @@ ("hudiEnabled" :> Some(TRUE))

\* d with d[k] = v
With(d, k, v) == (k :> v) @@ d

\* A saved group whose DTO also carries keys of its own, which disagree
\* with the flags of its features
ConflictingDTO ==
    With(With(With(With(With(With(BackendDTO,
        "features", Some(<<AsDict(FVal), AsDict(FId)>>)),
        "statisticColumns", Some(<<>>)),
        "primaryKey", Some(<<"ts">>)),
        "partitionKey", Some(<<"ts">>)),
        "descStatsEnabled", Some(FALSE)),
        "featCorrEnabled", Some(FALSE))

\* A DTO whose id is null, with keys of its own
NullIdDTO ==
    With(With(With(BackendDTO, "id", None), "primaryKey", Some(<<"ts">>)),
         "partitionKey", Some(<<"ts">>))

\* A DTO without an id, a version or keys
NoIdDTO ==
    With(With(Pop(BackendDTO, "id"), "version", None),
         "statisticsConfig", CfgInput("bool", TRUE))

\* Payloads from_response_json does not accept
NoTypeDTO == Pop(BackendDTO, "type")
NoFeaturesDTO == Pop(With(BackendDTO, "version", Some(2)), "features")
BadConfigDTO == With(NullIdDTO, "statisticsConfig", CfgInput("int", 5))

\* A saved group's DTO without the statistics flags and the time travel
\* format
NoFlagsDTO ==
    Pop(Pop(Pop(Pop(Pop(BackendDTO, "descStatsEnabled"), "featCorrEnabled"),
                "featHistEnabled"), "statisticColumns"), "timeTravelFormat")

Payloads ==
    {ConflictingDTO, NullIdDTO, NoIdDTO, NoTypeDTO, BadConfigDTO, NoFlagsDTO}

\* What the backend answers to a saved handle's requests
UpdatePayloads == {BackendDTO, ConflictingDTO, NoTypeDTO, NoFeaturesDTO}

\* Arguments of a user's FeatureGroup(...) call
UserArgs ==
    ("name" :> Some("fg"))
    @@ ("version" :> None)
    @@ ("featurestore_id" :> Some(67))
    @@ ("features" :> Some(<<FId, FTs>>))
    @@ ("primary_key" :> Some(<<"id">>))
    @@ ("partition_key" :> Some(<<"ts">>))
    @@ ("statistics_config" :> CfgInput("bool", TRUE))
    @@ ("time_travel_format" :> Some(str_hudi))

\* ... with keys that name no feature, an explicit version, and no
\* statistics_config
UserArgsLooseKeys ==
    Pop(With(With(With(UserArgs, "features", Some(<<FVal>>)),
                  "version", Some(1)), "time_travel_format", Some(str_Hudi)),
        "statistics_config")

VersionInputs == {None}
DescriptionInputs == {Some("fresh")}
OnlineEnabledInputs == {Some(TRUE)}
WallclockTimeInputs == {None, Some(""), Some("20201020073411")}
CommitTimeInputs == {None, Some("20201020073411")}
FeaturesInputs == {<<FVal>>}
TimeTravelFormatInputs == {Some(str_hudi)}
PrimaryKeyInputs == {Some(<<"id">>)}
PartitionKeyInputs == {Some(<<"ts">>)}
StorageInputs ==
    {[tag |-> "NoneType", s |-> <<>>], [tag |-> "str", s |-> str_Offline],
     [tag |-> "str", s |-> str_invalid],
     [tag |-> "int", s |-> <<>>]}
StatisticsConfigInputs ==
    {CfgInput("StatisticsConfig",
              StatisticsConfig(Some(TRUE), Some(TRUE), Some(FALSE), Some(<<"id">>))),
     CfgInput("dict", [enabled |-> Some(TRUE), correlations |-> Some(TRUE),
                       columns |-> Some(<<"id">>)]),
     CfgInput("bool", TRUE), CfgInput("bool", FALSE),
     CfgInput("NoneType", None), CfgInput("int", 5)}

\* Arguments of append_features: a Feature, a list of Features and
\* non-Features, or something that is neither
AppendInputs ==
    {[kind |-> "Feature", items |-> <<FTs>>]}
    \cup {[kind |-> "list", items |-> l] :
            l \in {<<>>, <<FVal>>, <<FTs, FVal>>, <<NotAFeature>>,
                   <<FVal, NotAFeature>>, <<NotAFeature, FVal>>}}
    \cup {[kind |-> "other", items |-> <<>>]}

\* The backend's bounded schema takes at most MaxFeatures features, each
\* name once
SchemaFits(h, features) ==
    LET all == h.features \o SelectSeq(features.items, LAMBDA f : f.kind = "Feature")
    IN Len(all) <= MaxFeatures /\ NoDup(all)

\* ---------------------------------------------------------- state machine
Init ==
    /\ fg \in {FeatureGroupInit(Blank, UserArgs).h,
               FeatureGroupInit(Blank, UserArgsLooseKeys).h,
               from_response_json(BackendDTO).h}
    /\ made = None
    /\ lastOp = "__init__"
    /\ arg = None
    /\ outcome = "returned"
    /\ result = "self"
    /\ calls = <<>>
    /\ warned = <<>>

\* The operation `op`, given a, ran as r on fg
Apply(op, a, r) ==
    /\ fg' = r.h
    /\ made' = None
    /\ lastOp' = op
    /\ arg' = a
    /\ outcome' = r.outcome
    /\ result' = r.result
    /\ calls' = r.calls
    /\ warned' = r.warned

Save ==
    \E fail \in {"none", "convert", "metadata", "statistics"}, v \in 1..MaxVersion :
        Apply("save", None, SaveRun(fg, fail, v))

Insert ==
    \E storage \in StorageInputs, fail \in Failures :
        Apply("insert", storage, InsertRun(fg, storage, fail))

ComputeStatistics ==
    \E fail \in {"none", "read", "statistics"} :
        Apply("compute_statistics", None, ComputeStatisticsRun(fg, fail))

Read ==
    \E wallclock_time \in WallclockTimeInputs, fail \in {"none", "read"} :
        Apply("read", None, ReadRun(fg, wallclock_time, fail))

ReadChanges ==
    \E fail \in {"none", "read"} :
        Apply("read_changes", None, ReadChangesRun(fg, fail))

Show ==
    \E fail \in {"none", "read"} : Apply("show", None, ShowRun(fg, fail))

CommitDetails ==
    \E fail \in {"none", "metadata"} :
        Apply("commit_details", None, CommitDetailsRun(fg, fail))

CommitDeleteRecord ==
    \E fail \in {"none", "metadata"} :
        Apply("commit_delete_record", None, CommitDeleteRecordRun(fg, fail))

UpdateStatisticsConfig ==
    \E fail \in {"none", "metadata"} :
        Apply("update_statistics_config", None, UpdateStatisticsConfigRun(fg, fail))

UpdateDescription ==
    \E description \in DescriptionInputs, fail \in {"none", "metadata"} :
        Apply("update_description", None,
              UpdateDescriptionRun(fg, description, fail))

GetStatistics ==
    \E commit_time \in CommitTimeInputs, fail \in {"none", "statistics"} :
        Apply("get_statistics", None, GetStatisticsRun(fg, commit_time, fail))

AppendFeatures ==
    \E features \in AppendInputs, fail \in {"none", "metadata"} :
        /\ fail = "none" => SchemaFits(fg, features)
        /\ Apply("append_features", features, AppendFeaturesRun(fg, features, fail))

SetVersion ==
    \E version \in VersionInputs :
        Apply("version", None, Ran(VersionSetter(fg, version),
                             "returned", "None", <<>>, <<>>))

SetDescription ==
    \E v \in DescriptionInputs :
        Apply("description", None, Ran(DescriptionSetter(fg, v),
                                 "returned", "None", <<>>, <<>>))

SetOnlineEnabled ==
    \E v \in OnlineEnabledInputs :
        Apply("online_enabled", None, Ran(OnlineEnabledSetter(fg, v),
                                    "returned", "None", <<>>, <<>>))

SetFeatures ==
    \E new_features \in FeaturesInputs :
        Apply("features", None, Ran(FeaturesSetter(fg, new_features),
                              "returned", "None", <<>>, <<>>))

SetTimeTravelFormat ==
    \E v \in TimeTravelFormatInputs :
        Apply("time_travel_format", None, Ran(TimeTravelFormatSetter(fg, v),
                                        "returned", "None", <<>>, <<>>))

SetPrimaryKey ==
    \E v \in PrimaryKeyInputs :
        Apply("primary_key", None, Ran(PrimaryKeySetter(fg, v),
                                 "returned", "None", <<>>, <<>>))

SetPartitionKey ==
    \E v \in PartitionKeyInputs :
        Apply("partition_key", None, Ran(PartitionKeySetter(fg, v),
                                   "returned", "None", <<>>, <<>>))

SetStatisticsConfig ==
    \E x \in StatisticsConfigInputs :
        LET set == StatisticsConfigSetter(fg.statistics_config, x)
        IN Apply("statistics_config", x,
                 Ran([fg EXCEPT !.statistics_config = set.cfg], set.outcome,
                     IF set.outcome = "returned" THEN "None" ELSE "none",
                     <<>>, <<>>))

UpdateFromResponseJson ==
    \E json_dict \in UpdatePayloads :
        LET r == InitFromJson(fg, json_dict)
        IN Apply("update_from_response_json", json_dict,
                 Ran(r.h, r.outcome,
                     IF r.outcome = "returned" THEN "self" ELSE "none", <<>>, <<>>))

\* The classmethod builds another handle; fg is untouched.
Construct(op, a, r) ==
    /\ made' = IF r.outcome = "returned" THEN Some(r.h) ELSE None
    /\ lastOp' = op
    /\ arg' = a
    /\ outcome' = r.outcome
    /\ result' = IF r.outcome = "returned" THEN "made" ELSE "none"
    /\ calls' = <<>>
    /\ warned' = <<>>
    /\ UNCHANGED fg

FromResponseJson ==
    \E json_dict \in Payloads :
        Construct("from_response_json", json_dict, from_response_json(json_dict))

\* from_response_json(fg.to_dict())
RoundTrip == Construct("round_trip", None, from_response_json(to_dict(fg)))

Next ==
    \/ Save
    \/ Insert
    \/ ComputeStatistics
    \/ AppendFeatures
    \/ Read
    \/ ReadChanges
    \/ Show
    \/ CommitDetails
    \/ CommitDeleteRecord
    \/ UpdateStatisticsConfig
    \/ UpdateDescription
    \/ GetStatistics
    \/ SetVersion
    \/ SetDescription
    \/ SetOnlineEnabled
    \/ SetFeatures
    \/ SetTimeTravelFormat
    \/ SetPrimaryKey
    \/ SetPartitionKey
    \/ SetStatisticsConfig
    \/ UpdateFromResponseJson
    \/ FromResponseJson
    \/ RoundTrip

Spec == Init /\ [][Next]_vars

\* ------------------------------------------------------------ properties
IsUpperOrNone(v) == v = None \/ \A i \in 1..Len(Val(v)) : Val(v)[i] \notin 97..122

StatisticsCalls(cs) ==
    {i \in 1..Len(cs) : cs[i].engine = "StatisticsEngine"
                        /\ cs[i].method = "compute_statistics"}
MethodCalls(cs, engine, method) ==
    {i \in 1..Len(cs) : cs[i].engine = engine /\ cs[i].method = method}
Enabled(h) == Truthy(h.statistics_config.enabled)
OneStorageWarning(ws) == Len(ws) = 1 /\ ws[1].category = "StorageWarning"

\* C1: time_travel_format is always stored upper-cased: in every state
\* reachable by construction, from_response_json, update_from_response_json
\* and assignments through the setter, the stored value is None or equal to
\* its own upper-cased form.
C1_TimeTravelFormatStoredUpper ==
    /\ IsUpperOrNone(fg.time_travel_format)
    /\ made # None => IsUpperOrNone(Val(made).time_travel_format)

\* C2 (as claimed): an insert that returns has made exactly one
\* StatisticsEngine.compute_statistics call, whatever statistics_config.enabled
\* is.
C2_InsertAlwaysRecomputes ==
    (lastOp = "insert" /\ outcome = "returned")
        => Cardinality(StatisticsCalls(calls)) = 1

\* C2 (amended): after MetadataEngine.insert has returned, insert recomputes
\* statistics only when statistics_config.enabled is true: an insert that
\* returns has then made exactly one StatisticsEngine.compute_statistics call,
\* after MetadataEngine.insert and on a full read, and no warning; when the
\* flag is false it makes no StatisticsEngine call and no read, returns and
\* emits exactly one advisory warning.
C2_InsertRecomputesWhenEnabled ==
    (lastOp = "insert"
     /\ \E i \in MethodCalls(calls, "MetadataEngine", "insert") : calls[i].returned)
    => IF Enabled(fg)
       THEN /\ warned = <<>>
            /\ Cardinality(StatisticsCalls(calls)) <= 1
            /\ outcome = "returned" =>
                 /\ Cardinality(StatisticsCalls(calls)) = 1
                 /\ \A i \in StatisticsCalls(calls) :
                      /\ calls[i].data = "read_result"
                      /\ \E j \in 1..(i - 1) : calls[j].method = "insert"
                      /\ \E j \in 1..(i - 1) : calls[j].method = "read"
       ELSE /\ outcome = "returned"
            /\ StatisticsCalls(calls) = {}
            /\ MethodCalls(calls, "ComputeEngine", "read") = {}
            /\ OneStorageWarning(warned)

\* C2 witness: an insert returned on a handle whose statistics are disabled.
C2_Witness ==
    /\ lastOp = "insert" /\ outcome = "returned" /\ ~Enabled(fg)
    /\ Len(calls) = 2 /\ calls[2].method = "insert" /\ calls[2].returned
    /\ OneStorageWarning(warned)

\* The storage values the claim allows: None, "online", "offline"
StorageAllowed(x) ==
    x.tag = "NoneType" \/ (x.tag = "str" /\ x.s \in {str_online, str_offline})
\* C3 (as claimed): insert with a storage that is not None, "online" or
\* "offline" raises before any collaborator is contacted, and the handle's
\* fields are unchanged.
C3_InvalidStorageRaisesFirst ==
    [][(lastOp' = "insert" /\ ~StorageAllowed(arg'))
         => (outcome' # "returned" /\ calls' = <<>> /\ fg' = fg)]_vars

\* The names of the features carrying a flag, in the order of the features
Flagged(feats, flag) ==
    LET sel == SelectSeq(feats, LAMBDA f : f[flag] = TRUE)
    IN [i \in 1..Len(sel) |-> sel[i].name]
\* The value a payload gives under a key, None when it has no such key
Entry(json_dict, k) == IF k \in DOMAIN json_dict THEN json_dict[k] ELSE None

\* C4 (as claimed): for every payload from_response_json accepts, the
\* handle's primary_key is exactly the names of the features flagged primary,
\* in feature order, and partition_key those flagged partition.
C4_KeysDerivedForEveryPayload ==
    (lastOp = "from_response_json" /\ made # None)
    => /\ Val(made).primary_key = Some(Flagged(Val(arg["features"]), "primary"))
       /\ Val(made).partition_key = Some(Flagged(Val(arg["features"]), "partition"))

\* C4 (amended): for every payload from_response_json accepts whose id is
\* present and not null, primary_key and partition_key are exactly the names
\* of the features flagged primary / partition, in feature order, whatever
\* keys the payload carries; for an accepted payload whose id is absent or
\* null they are the payload's own primaryKey / partitionKey entries (None
\* when it has none).
C4_KeysDerivedWhenIdPresent ==
    (lastOp = "from_response_json" /\ made # None)
    => IF Entry(arg, "id") # None
       THEN /\ Val(made).primary_key = Some(Flagged(Val(arg["features"]), "primary"))
            /\ Val(made).partition_key = Some(Flagged(Val(arg["features"]), "partition"))
       ELSE /\ Val(made).primary_key = Entry(arg, "primaryKey")
            /\ Val(made).partition_key = Entry(arg, "partitionKey")

\* C4 witness: a payload with an id and keys of its own that disagree with
\* its features' flags was accepted.
C4_Witness ==
    /\ lastOp = "from_response_json" /\ made # None
    /\ Entry(arg, "id") # None
    /\ Entry(arg, "primaryKey") = Some(<<"ts">>)
    /\ Val(made).primary_key = Some(<<"id">>)
    /\ Val(made).partition_key = Some(<<>>)

\* Every name in the handle's keys is the name of one of its features
KeysNameFeatures(h) ==
    /\ h.primary_key # None => Range(Val(h.primary_key)) \subseteq Names(h.features)
    /\ h.partition_key # None => Range(Val(h.partition_key)) \subseteq Names(h.features)

\* C5 (as claimed): in every reachable state of a handle every name in
\* primary_key and in partition_key is the name of a feature in features.
C5_KeysSubsetOfFeatures ==
    /\ KeysNameFeatures(fg)
    /\ made # None => KeysNameFeatures(Val(made))

\* C5 (amended): right after a construction by the backend (__init__,
\* from_response_json or update_from_response_json with an id that is not
\* None), every name in primary_key and in partition_key is the name of a
\* feature in features; user construction and the features, primary_key and
\* partition_key setters store what they are given.
C5_KeysSubsetAfterBackendInit ==
    /\ (lastOp \in {"from_response_json", "round_trip"} /\ made # None
        /\ Val(made).id # None) => KeysNameFeatures(Val(made))
    /\ (lastOp \in {"__init__", "update_from_response_json"}
        /\ outcome = "returned" /\ fg.id # None) => KeysNameFeatures(fg)

\* C5 witness: the handle was re-initialized from a backend payload whose own
\* keys name no feature of it.
C5_Witness ==
    /\ lastOp = "update_from_response_json" /\ outcome = "returned"
    /\ fg.id # None
    /\ Entry(arg, "primaryKey") = Some(<<"ts">>)
    /\ "ts" \notin Names(fg.features)
    /\ fg.primary_key = Some(<<"id">>)

\* C6 (as claimed): from_response_json(h.to_dict()) has the same name,
\* version, features and statistics_config as h, for every handle h.
C6_RoundTrip ==
    lastOp = "round_trip"
    => /\ made # None
       /\ Val(made).name = fg.name
       /\ Val(made).version = fg.version
       /\ Val(made).features = fg.features
       /\ Val(made).statistics_config = fg.statistics_config

\* C6 (amended): from_response_json(h.to_dict()) has the same name, version
\* and features as h for every handle h; it has the same statistics_config
\* when h has an id, and the default StatisticsConfig() when h.id is None.
C6_RoundTripWhenSaved ==
    lastOp = "round_trip"
    => /\ made # None
       /\ Val(made).name = fg.name
       /\ Val(made).version = fg.version
       /\ Val(made).features = fg.features
       /\ Val(made).statistics_config =
            IF fg.id # None THEN fg.statistics_config ELSE DefaultStatisticsConfig

\* C6 witness: a saved handle with correlations on and histograms off went
\* through the round trip.
C6_Witness ==
    /\ lastOp = "round_trip" /\ made # None /\ fg.id # None
    /\ Enabled(fg)
    /\ fg.statistics_config.correlations = Some(TRUE)
    /\ fg.statistics_config.histograms = Some(FALSE)
    /\ fg.statistics_config.columns = Some(<<"id">>)

IsPrefix(a, b) == Len(a) <= Len(b) /\ SubSeq(b, 1, Len(a)) = a

\* C7 (as claimed): no operation of the handle removes a feature: a feature
\* in features stays in features at every later state.
C7_FeaturesAdditiveOnly ==
    [][Range(fg.features) \subseteq Range(fg'.features)]_vars

\* C7 (amended): every operation of the handle other than the features
\* setter and update_from_response_json keeps the features it had, in order,
\* at the front of features (append_features adds behind them); the features
\* setter and update_from_response_json replace the list.
C7_FeaturesKeptExceptReplace ==
    [][lastOp' \notin {"features", "update_from_response_json"}
         => IsPrefix(fg.features, fg'.features)]_vars

\* C7 witness: append_features added one feature behind an existing one.
C7_Witness ==
    /\ lastOp = "append_features" /\ outcome = "returned"
    /\ Len(arg.items) = 1 /\ Len(fg.features) = 2
    /\ fg.features[2] = arg.items[1]

\* A Feature, or a list of nothing but Features
ValidAppendArgument(x) ==
    \/ x.kind = "Feature"
    \/ x.kind = "list" /\ \A i \in 1..Len(x.items) : x.items[i].kind = "Feature"

\* C8: append_features given what is neither a Feature nor a list of only
\* Features (also a list with a non-Feature after Features) raises a type
\* error, leaves features unchanged and does not call
\* MetadataEngine.append_features.
C8_AppendRejectsNonFeatures ==
    [][(lastOp' = "append_features" /\ ~ValidAppendArgument(arg'))
         => /\ outcome' = "TypeError"
            /\ fg'.features = fg.features
            /\ fg' = fg
            /\ calls' = <<>>]_vars

\* C8 witness: a list with a non-Feature behind a Feature was rejected.
C8_Witness ==
    /\ lastOp = "append_features" /\ arg.kind = "list" /\ Len(arg.items) = 2
    /\ arg.items[1].kind = "Feature" /\ arg.items[2].kind # "Feature"
    /\ outcome = "TypeError" /\ calls = <<>>

\* C9 (as claimed): every save calls MetadataEngine.save exactly once and,
\* only after it has returned, StatisticsEngine.compute_statistics once when
\* statistics_config.enabled is true and not at all when it is false; when
\* MetadataEngine.save raises, the StatisticsEngine is not called.
C9_SaveThenStatistics ==
    lastOp = "save"
    => /\ Cardinality(MethodCalls(calls, "MetadataEngine", "save")) = 1
       /\ \A i \in MethodCalls(calls, "MetadataEngine", "save") :
            IF calls[i].returned
            THEN /\ Cardinality(StatisticsCalls(calls)) = IF Enabled(fg) THEN 1 ELSE 0
                 /\ \A j \in StatisticsCalls(calls) : j > i
            ELSE StatisticsCalls(calls) = {} /\ outcome # "returned"

\* C9 (amended): save first has the ComputeEngine convert the dataframe.  A
\* save whose conversion returns calls MetadataEngine.save exactly once and,
\* only after it has returned, StatisticsEngine.compute_statistics once when
\* statistics_config.enabled is true and not at all when it is false; when
\* MetadataEngine.save raises, the StatisticsEngine is not called.  A save
\* whose conversion raises raises, and calls neither the MetadataEngine nor
\* the StatisticsEngine.
C9_SaveThenStatisticsOnceConverted ==
    lastOp = "save"
    => /\ Len(calls) >= 1
       /\ calls[1].engine = "ComputeEngine"
       /\ calls[1].method = "convert_to_default_dataframe"
       /\ IF calls[1].returned
          THEN /\ Cardinality(MethodCalls(calls, "MetadataEngine", "save")) = 1
               /\ \A i \in MethodCalls(calls, "MetadataEngine", "save") :
                    IF calls[i].returned
                    THEN /\ Cardinality(StatisticsCalls(calls)) =
                              IF Enabled(fg) THEN 1 ELSE 0
                         /\ \A j \in StatisticsCalls(calls) : j > i
                    ELSE StatisticsCalls(calls) = {} /\ outcome # "returned"
          ELSE /\ Len(calls) = 1
               /\ outcome # "returned"

\* C9 witness: a save on a handle with statistics enabled returned, having
\* called MetadataEngine.save and then the StatisticsEngine.
C9_Witness ==
    /\ lastOp = "save" /\ outcome = "returned" /\ Enabled(fg)
    /\ Len(calls) = 3 /\ calls[2].method = "save"
    /\ calls[3].engine = "StatisticsEngine"

\* C10: compute_statistics on a handle with statistics disabled returns
\* nothing, raises nothing, emits exactly one advisory warning and calls
\* neither the ComputeEngine read nor the StatisticsEngine; with statistics
\* enabled, a call that returns has called
\* StatisticsEngine.compute_statistics exactly once, on the result of a full
\* read, and returns that engine's result.
C10_ComputeStatistics ==
    lastOp = "compute_statistics"
    => IF ~Enabled(fg)
       THEN /\ outcome = "returned" /\ result = "None"
            /\ OneStorageWarning(warned)
            /\ calls = <<>>
       ELSE /\ warned = <<>>
            /\ Cardinality(StatisticsCalls(calls)) <= 1
            /\ \A i \in StatisticsCalls(calls) :
                 /\ calls[i].data = "read_result"
                 /\ \E j \in 1..(i - 1) :
                      /\ calls[j].engine = "ComputeEngine"
                      /\ calls[j].method = "read" /\ calls[j].returned
            /\ outcome = "returned" =>
                 /\ Cardinality(StatisticsCalls(calls)) = 1
                 /\ Cardinality(MethodCalls(calls, "ComputeEngine", "read")) = 1
                 /\ result = "statistics"

\* C10 witness: compute_statistics on a handle with statistics disabled
\* returned with its warning.
C10_Witness ==
    /\ lastOp = "compute_statistics" /\ ~Enabled(fg)
    /\ outcome = "returned" /\ Len(warned) = 1

\* C11: a save that returns emits the version warning if and only if the
\* handle's version was None when save was called, and the version the
\* warning reports is the one the handle holds after MetadataEngine.save
\* returned (the backend's), not the one held at call time.
C11_VersionWarning ==
    [][(lastOp' = "save" /\ outcome' = "returned")
         => /\ (fg.version = None) <=> (warned' # <<>>)
            /\ Len(warned') <= 1
            /\ \A i \in 1..Len(warned') :
                 /\ warned'[i].category = "VersionWarning"
                 /\ warned'[i].name = fg'.name
                 /\ warned'[i].version = fg'.version
                 /\ warned'[i].version # fg.version]_vars

\* C11 witness: a save without a version returned and warned with the
\* version the backend assigned.
C11_Witness ==
    /\ lastOp = "save" /\ outcome = "returned"
    /\ Len(warned) = 1 /\ warned[1].category = "VersionWarning"
    /\ warned[1].version = Some(MaxVersion) /\ fg.version = Some(MaxVersion)

\* The Python types the statistics_config setter accepts.
AcceptedConfigTypes == {"StatisticsConfig", "dict", "bool", "NoneType"}

\* C12: assigning statistics_config returns for exactly four argument types
\* and stores a StatisticsConfig: a StatisticsConfig is stored as given, a
\* dict gives the fields it names and the defaults for the others, a bool b
\* gives enabled = b with the other fields at their defaults, None gives
\* the default config; any other type raises TypeError and the stored
\* config is the one held before. No other field of the handle changes.
C12_StatisticsConfigSetter ==
    [][lastOp' = "statistics_config"
         => LET x == arg'
                new == fg'.statistics_config
                dflt == DefaultStatisticsConfig
            IN /\ (outcome' = "returned") <=> (x.tag \in AcceptedConfigTypes)
               /\ (outcome' # "returned") => outcome' = "TypeError"
               /\ DOMAIN new = DOMAIN dflt
               /\ x.tag = "StatisticsConfig" => new = x.val
               /\ x.tag = "dict" =>
                     \A k \in DOMAIN dflt :
                        new[k] = IF k \in DOMAIN x.val THEN x.val[k] ELSE dflt[k]
               /\ x.tag = "bool" =>
                     /\ new.enabled = Some(x.val)
                     /\ \A k \in DOMAIN dflt \ {"enabled"} : new[k] = dflt[k]
               /\ x.tag = "NoneType" => new = dflt
               /\ x.tag \notin AcceptedConfigTypes => new = fg.statistics_config
               /\ fg' = [fg EXCEPT !.statistics_config = new]
               /\ calls' = <<>> /\ warned' = <<>>]_vars

\* C12 witness: an int was assigned to a handle holding a non-default
\* config; TypeError was raised and the config is still the one held.
C12_Witness ==
    /\ lastOp = "statistics_config" /\ outcome = "TypeError"
    /\ arg.tag = "int"
    /\ fg.statistics_config =
         StatisticsConfig(Some(TRUE), Some(TRUE), Some(FALSE), Some(<<"id">>))

====
